---- MODULE Spec2Model ----
(***************************************************************************)
(* Hourly agent-based town simulation (town_model.py): the TownModel       *)
(* constructor, the ShutdownPolicy predicates, TownAgent.move /            *)
(* update_health / update_stress and TownModel.step, driven by the loop of *)
(* run_sim.run_policy / verify_changes.verify.                             *)
(*                                                                         *)
(* Reals of the program (stress, social_need and the stress parameters)    *)
(* are kept on a grid of 1/Unit: the value x of the program is the integer *)
(* x * Unit here.  Sums, differences, min and max are exact on the grid;   *)
(* the two divisions of the social-influence blend (the mean, then the     *)
(* weighted sum) round down.                                               *)
(*                                                                         *)
(* A random draw is a choice over the outcomes the draw can have: a        *)
(* comparison random() < p can come out true iff p > 0 and false iff       *)
(* p < 1.  The draws of the constructor are taken from small sets (Init,   *)
(* InitOutbreak), outings_left bounds how many leisure draws of a run come *)
(* out "go out", and the infection draws of the steps before escape_until  *)
(* come out "not infected": every run explored is a run of the program,    *)
(* for the seeds that give these draws.                                    *)
(***************************************************************************)
EXTENDS Integers, Sequences, FiniteSets, TLC

VARIABLES
    num_agents,       \* TownModel.num_agents
    mode,             \* ShutdownPolicy.mode
    location_types,   \* TownModel.location_types: name -> category
    leisure_locations,\* TownModel.leisure_locations
    role, home, work, business, social_need, has_dependents,
                      \* per agent, set by TownAgent.__init__
    location, health_state, days_in_state, stress, compliant, today_contacts,
                      \* per agent, mutated by step
    current_hour,     \* TownModel.current_hour
    model_vars,       \* the DataCollector's rows, one per collect()
    hour,             \* the driver's loop index: step calls made so far
    sim_hours,        \* the driver's loop count
    outings_left,     \* leisure draws that may still come out "go out"
    escape_until,     \* infection draws of the steps before this index escape
    exposed_at,       \* history: step index in which the agent turned E, or -1
    infectious_at,    \* history: step index in which the agent turned I, or -1
    recovered_at,     \* history: step index in which the agent turned R, or -1
    cleared_at        \* history: step indices that ran the hour-0 reset

vars == <<num_agents, mode, location_types, leisure_locations,
          role, home, work, business, social_need, has_dependents,
          location, health_state, days_in_state, stress, compliant,
          today_contacts, current_hour, model_vars, hour, sim_hours,
          outings_left, escape_until,
          exposed_at, infectious_at, recovered_at, cleared_at>>

(***************************************************************************)
(* Program constants.                                                      *)
(***************************************************************************)
Unit == 1000                  \* the program's 1.0
incubation_hours == 72
infectious_hours == 168
beta == 50                    \* 0.05
stress_decay == 1             \* 0.001
isolation_stress == 2         \* 0.002
fear_stress == 5              \* 0.005
economic_stress == 5          \* 0.005
dependent_stress == 2         \* 0.002
stress_influence == 100       \* 0.1
target_contacts == 5
InitialStress == 200          \* 0.2
HighStress == 800             \* 0.8
FlipChance == 100             \* 0.1
HoursPerDay == 24
InitialInfections == 3

(***************************************************************************)
(* Bounds of the exploration.                                              *)
(***************************************************************************)
PopSize == 5          \* N of the day-long runs
OutbreakPop == 4      \* N of the long runs
DayRun == 26          \* loop count of the day-long runs
OutbreakRun == 252    \* loop count of the long runs
MaxOutings == 1       \* leisure draws of a day-long run that come out "go out"
ConfigPop == 5        \* largest N of the construction runs
ConfigRun == 2        \* loop count of the construction runs
HouseholdPop == 6     \* N of the household runs

Min(a, b) == IF a < b THEN a ELSE b
Max(a, b) == IF a > b THEN a ELSE b

Agents == 0 .. (num_agents - 1)
PolicyModes == {"none", "targeted", "full"}
Roles == {"student", "office", "service", "owner"}
HealthStates == {"S", "E", "I", "R"}
NoLocation == <<"None", 0>>

\* f"{category}_{i}"
Name(category, i) == <<category, i>>
Named(category, n) == {Name(category, i) : i \in 0 .. (n - 1)}

(***************************************************************************)
(* ShutdownPolicy                                                          *)
(***************************************************************************)
LocType(l) == IF l \in DOMAIN location_types THEN location_types[l] ELSE "other"
\* allows_work without the exemption of service workers.
allows_work_no_essential(a) ==
    IF mode = "none" THEN TRUE
    ELSE IF mode = "targeted" THEN TRUE
    ELSE IF mode = "full" THEN FALSE
    ELSE TRUE

\* allows_work with work open to everyone under "full".
allows_work_always(a) == TRUE

allows_work(a) ==
    IF role[a] = "service" THEN TRUE
    ELSE IF mode = "none" THEN TRUE
    ELSE IF mode = "targeted" THEN TRUE
    ELSE IF mode = "full" THEN FALSE
    ELSE TRUE
\* allows_school without the closure of schools under "full".
allows_school_open(a) ==
    IF role[a] # "student" THEN FALSE ELSE TRUE

\* allows_school without the test of the agent's role.
allows_school_any_role(a) ==
    IF mode = "none" THEN TRUE
    ELSE IF mode = "targeted" THEN TRUE
    ELSE IF mode = "full" THEN FALSE
    ELSE TRUE

allows_school(a) ==
    IF role[a] # "student" THEN FALSE
    ELSE IF mode = "none" THEN TRUE
    ELSE IF mode = "targeted" THEN TRUE
    ELSE IF mode = "full" THEN FALSE
    ELSE TRUE

\* allows_leisure_location letting only parks pass under "targeted".
allows_leisure_parks_only(l) ==
    IF mode = "none" THEN TRUE
    ELSE IF mode = "targeted" THEN LocType(l) = "park"
    ELSE IF mode = "full" THEN FALSE
    ELSE TRUE

\* allows_leisure_location with the cafes open under "targeted".
allows_leisure_cafes_open(l) ==
    IF mode = "none" THEN TRUE
    ELSE IF mode = "targeted" THEN TRUE
    ELSE IF mode = "full" THEN FALSE
    ELSE TRUE

allows_leisure_location(l) ==
    IF mode = "none" THEN TRUE
    ELSE IF mode = "targeted"
         THEN IF LocType(l) = "park" THEN TRUE
              ELSE IF LocType(l) = "cafe" THEN FALSE
              ELSE TRUE
    ELSE IF mode = "full" THEN FALSE
    ELSE TRUE

\* allows_business_open keeping every business open under "targeted".
allows_business_open_targeted(a) ==
    IF role[a] # "owner" THEN TRUE
    ELSE IF business[a] = NoLocation THEN TRUE
    ELSE IF mode = "none" THEN TRUE
    ELSE IF mode = "targeted" THEN TRUE
    ELSE IF mode = "full" THEN FALSE
    ELSE TRUE

allows_business_open(a) ==
    IF role[a] # "owner" THEN TRUE
    ELSE IF business[a] = NoLocation THEN TRUE
    ELSE IF mode = "none" THEN TRUE
    ELSE IF mode = "targeted"
         THEN IF LocType(business[a]) = "cafe" THEN FALSE ELSE TRUE
    ELSE IF mode = "full" THEN FALSE
    ELSE TRUE

(***************************************************************************)
(* TownAgent.move                                                          *)
(***************************************************************************)
\* 10 * p_go_out on the grid
GoOutChance(a) == Min(10 * Unit, 10 * social_need[a] + 4 * stress[a])

\* AllowedLeisure without the policy.
AnyLeisure == leisure_locations

AllowedLeisure == {l \in leisure_locations : allows_leisure_location(l)}

\* leisure_or_home with the policy applied to compliant agents only.
leisure_or_home_defiant(a) ==
    LET allowed == IF compliant[a] THEN AllowedLeisure ELSE leisure_locations
    IN  (IF GoOutChance(a) > 0
         THEN (IF allowed # {} THEN allowed ELSE {home[a]})
         ELSE {})
        \cup (IF GoOutChance(a) < 10 * Unit THEN {home[a]} ELSE {})

\* The locations _leisure_or_home can leave the agent at.
leisure_or_home(a) ==
    (IF GoOutChance(a) > 0
     THEN (IF AllowedLeisure # {} THEN AllowedLeisure ELSE {home[a]})
     ELSE {})
    \cup (IF GoOutChance(a) < 10 * Unit THEN {home[a]} ELSE {})

InWorkBlock(a, h) ==
    \/ role[a] \in {"office", "service", "owner"} /\ 9 <= h /\ h < 17
    \/ role[a] = "student" /\ 8 <= h /\ h < 15

\* move with the students on the block [9,17) of the other roles.
move_one_block(a, h) ==
    IF 9 <= h /\ h < 17
    THEN IF (IF role[a] = "student" THEN allows_school(a) ELSE allows_work(a))
            /\ work[a] # NoLocation
         THEN {work[a]} ELSE {home[a]}
    ELSE leisure_or_home(a)

\* The locations move(current_hour) can leave the agent at.
move(a, h) ==
    IF role[a] \in {"office", "service", "owner"}
    THEN IF 9 <= h /\ h < 17
         THEN IF allows_work(a) /\ work[a] # NoLocation
              THEN {work[a]} ELSE {home[a]}
         ELSE leisure_or_home(a)
    ELSE IF role[a] = "student"
    THEN IF 8 <= h /\ h < 15
         THEN IF allows_school(a) /\ work[a] # NoLocation
              THEN {work[a]} ELSE {home[a]}
         ELSE leisure_or_home(a)
    ELSE leisure_or_home(a)

\* Leisure draws among the first n agents of the sequence f that came out
\* "go out" and found a permitted place.
Outings(f, n, h) ==
    Cardinality({a \in 0 .. (n - 1) : ~InWorkBlock(a, h) /\ f[a + 1] # home[a]})

\* The movement pass over the first n agents of schedule.agents: every
\* outcome with at most k outings, as a sequence whose (a+1)-th element is
\* agent a's new location.
RECURSIVE MovePass(_, _, _)
MovePass(n, h, k) ==
    IF n = 0 THEN {<<>>}
    ELSE {g \in {Append(f, l) : f \in MovePass(n - 1, h, k), l \in move(n - 1, h)} :
             Outings(g, n, h) <= k}

(***************************************************************************)
(* TownModel.step, phase 2: co-location, contacts, transmission            *)
(***************************************************************************)
Group(loc, a) == {b \in Agents : loc[b] = loc[a]}
\* RecordContacts adding only aj to ai's set, for ai before aj in the group.
RecordContactsOneWay(loc, contacts) ==
    [a \in Agents |-> contacts[a] \cup {b \in Group(loc, a) : b > a}]

RecordContacts(loc, contacts) ==
    [a \in Agents |-> contacts[a] \cup (Group(loc, a) \ {a})]

InfectiousIn(loc, a) == {b \in Group(loc, a) : health_state[b] = "I"}
\* AtRisk with the susceptibles taken as "not Infectious" instead of "S".
AtRiskNotInfectious(loc) ==
    {s \in Agents : /\ health_state[s] # "I"
                    /\ Cardinality(Group(loc, s)) >= 2
                    /\ InfectiousIn(loc, s) # {}}

\* AtRisk with the Exposed agents of the group taken as infectious too.
AtRiskFromExposed(loc) ==
    {s \in Agents : /\ health_state[s] = "S"
                    /\ Cardinality(Group(loc, s)) >= 2
                    /\ \E b \in Group(loc, s) : health_state[b] \in {"E", "I"}}

\* 1 - (1 - beta) ** k is strictly between 0 and 1 when 0 < beta < 1, k > 0
AtRisk(loc) ==
    {s \in Agents : /\ health_state[s] = "S"
                    /\ Cardinality(Group(loc, s)) >= 2
                    /\ InfectiousIn(loc, s) # {}}

MayInfect == beta > 0 /\ hour >= escape_until
MayEscape == beta < Unit

Transmissions(loc) ==
    {X \in SUBSET AtRisk(loc) : /\ (X # {} => MayInfect)
                                /\ (X # AtRisk(loc) => MayEscape)}

Transmit(exposed) ==
    [health_state |-> [a \in Agents |->
                          IF a \in exposed THEN "E" ELSE health_state[a]],
     days_in_state |-> [a \in Agents |->
                          IF a \in exposed THEN 0 ELSE days_in_state[a]]]

(***************************************************************************)
(* TownAgent.update_health, update_stress                                  *)
(***************************************************************************)
\* update_health leaving Exposed as soon as the counter reaches the threshold.
update_health_at_threshold(h, d) ==
    LET d1 == IF h \in {"E", "I"} THEN d + 1 ELSE d
    IN  IF h = "E" /\ d1 >= incubation_hours
        THEN [health_state |-> "I", days_in_state |-> 0]
        ELSE IF h = "I" /\ d1 > infectious_hours
        THEN [health_state |-> "R", days_in_state |-> 0]
        ELSE [health_state |-> h, days_in_state |-> d1]

\* update_health comparing the Infectious counter with incubation_hours.
update_health_one_threshold(h, d) ==
    LET d1 == IF h \in {"E", "I"} THEN d + 1 ELSE d
    IN  IF h = "E" /\ d1 > incubation_hours
        THEN [health_state |-> "I", days_in_state |-> 0]
        ELSE IF h = "I" /\ d1 > incubation_hours
        THEN [health_state |-> "R", days_in_state |-> 0]
        ELSE [health_state |-> h, days_in_state |-> d1]

\* update_health counting the hours of Exposed agents only.
update_health_exposed_only(h, d) ==
    LET d1 == IF h = "E" THEN d + 1 ELSE d
    IN  IF h = "E" /\ d1 > incubation_hours
        THEN [health_state |-> "I", days_in_state |-> 0]
        ELSE IF h = "I" /\ d1 > infectious_hours
        THEN [health_state |-> "R", days_in_state |-> 0]
        ELSE [health_state |-> h, days_in_state |-> d1]

update_health(h, d) ==
    LET d1 == IF h \in {"E", "I"} THEN d + 1 ELSE d
    IN  IF h = "E" /\ d1 > incubation_hours
        THEN [health_state |-> "I", days_in_state |-> 0]
        ELSE IF h = "I" /\ d1 > infectious_hours
        THEN [health_state |-> "R", days_in_state |-> 0]
        ELSE [health_state |-> h, days_in_state |-> d1]

RECURSIVE SumOver(_, _)
SumOver(S, f) ==
    IF S = {} THEN 0
    ELSE LET x == CHOOSE y \in S : TRUE IN f[x] + SumOver(S \ {x}, f)

\* np.mean of an empty list (a warning, no exception)
NaN == "nan"

\* np.mean of the values of f over S
Mean(S, f) == IF S = {} THEN NaN ELSE SumOver(S, f) \div Cardinality(S)

Decay(s) == Max(0, s - stress_decay)
AddStress(s, inc) == Min(Unit, s + inc)
\* Blend with the weight (1 - alpha) of the agent's own stress left out.
BlendUnweighted(s, avg) == (Unit * s + stress_influence * avg) \div Unit
Blend(s, avg) == ((Unit - stress_influence) * s + stress_influence * avg) \div Unit

\* update_stress with the fear term applied whatever the contacts.
update_stress_always_afraid(a, st, contacts) ==
    LET s1 == Decay(st.stress[a])
        s2 == IF Cardinality(contacts[a]) * Unit < social_need[a] * target_contacts
              THEN AddStress(s1, isolation_stress) ELSE s1
        s3 == AddStress(s2, fear_stress)
        s4 == IF role[a] = "owner" /\ ~allows_business_open(a)
              THEN AddStress(s3, economic_stress) ELSE s3
    IN  IF contacts[a] # {}
        THEN Blend(s4, Mean(contacts[a], st.stress))
        ELSE s4

\* update_stress of agent a, reading the health and stress the other agents
\* have at this moment of the pass (st) and a's contacts
update_stress(a, st, contacts) ==
    LET s1 == Decay(st.stress[a])
        s2 == IF Cardinality(contacts[a]) * Unit < social_need[a] * target_contacts
              THEN AddStress(s1, isolation_stress) ELSE s1
        infected_contacts ==
              Cardinality({b \in contacts[a] : st.health_state[b] = "I"})
        s3 == IF infected_contacts > 0 THEN AddStress(s2, fear_stress) ELSE s2
        s4 == IF role[a] = "owner" /\ ~allows_business_open(a)
              THEN AddStress(s3, economic_stress) ELSE s3
        s5 == IF has_dependents[a] /\ infected_contacts > 0
              THEN AddStress(s4, dependent_stress) ELSE s4
    IN  IF contacts[a] # {}
        THEN Blend(s5, Mean(contacts[a], st.stress))
        ELSE s5

\* UpdatePass with every agent reading the others as they were before the
\* pass.
UpdatePassFromSnapshot(i, st, contacts) ==
    LET hd == [a \in Agents |->
                  update_health(st.health_state[a], st.days_in_state[a])]
        own(a) == [st EXCEPT !.health_state[a] = hd[a].health_state,
                             !.days_in_state[a] = hd[a].days_in_state]
    IN  [health_state |-> [a \in Agents |-> hd[a].health_state],
         days_in_state |-> [a \in Agents |-> hd[a].days_in_state],
         stress |-> [a \in Agents |-> update_stress(a, own(a), contacts)]]

\* The health & stress pass of step over schedule.agents, agent i onwards
RECURSIVE UpdatePass(_, _, _)
UpdatePass(i, st, contacts) ==
    IF i >= num_agents THEN st
    ELSE LET hd == update_health(st.health_state[i], st.days_in_state[i])
             st1 == [st EXCEPT !.health_state[i] = hd.health_state,
                               !.days_in_state[i] = hd.days_in_state]
             st2 == [st1 EXCEPT !.stress[i] = update_stress(i, st1, contacts)]
         IN  UpdatePass(i + 1, st2, contacts)

\* self.stress > 0.8 and random() < 0.1: the agents whose draw can, and must,
\* come out below 0.1.  A draw of an agent that is already non-compliant
\* changes nothing and is left out.
\* HighStressed with the threshold at half of 0.8.
HighStressedEarly(st) ==
    {a \in Agents : st.stress[a] > HighStress \div 2 /\ compliant[a]}

HighStressed(st) == {a \in Agents : st.stress[a] > HighStress /\ compliant[a]}
Flips(st) ==
    {F \in SUBSET HighStressed(st) :
        /\ (F # {} => FlipChance > 0)
        /\ (F # HighStressed(st) => FlipChance < Unit)}

(***************************************************************************)
(* DataCollector.collect                                                   *)
(***************************************************************************)
\* RoleMean taking the mean over the whole population.
RoleMeanOfAll(r, st) ==
    IF Agents # {} THEN Mean(Agents, st.stress) ELSE 0

RoleMean(r, st) ==
    LET S == {a \in Agents : role[a] = r}
    IN  IF S # {} THEN Mean(S, st.stress) ELSE 0

Collect(st) ==
    [Infected |-> Cardinality({a \in Agents : st.health_state[a] = "I"}),
     AvgStress |-> Mean(Agents, st.stress),
     HighStressFrac |->
        IF Agents = {} THEN NaN
        ELSE (Cardinality({a \in Agents : st.stress[a] > HighStress}) * Unit)
                 \div num_agents,
     AvgStress_Student |-> RoleMean("student", st),
     AvgStress_Office |-> RoleMean("office", st),
     AvgStress_Service |-> RoleMean("service", st),
     AvgStress_Owner |-> RoleMean("owner", st)]

(***************************************************************************)
(* TownModel.step, called by the driver's loop                             *)
(***************************************************************************)
\* ClearContacts keeping the contacts of the day before.
KeepContacts == today_contacts

ClearContacts ==
    IF current_hour = 0 THEN [a \in Agents |-> {}] ELSE today_contacts
\* AdvanceHour without the wrap.
AdvanceHourNoWrap(h) == h + 1

\* self.current_hour = (self.current_hour + 1) % 24
AdvanceHour(h) == (h + 1) % HoursPerDay
\* Snapshot collected before the health & stress pass.
SnapshotBeforePass(before, after) == Collect(before)

\* Phases 3 and 4: the row collected once the pass has taken the agents from
\* before to after.
Snapshot(before, after) == Collect(after)

\* Unassigned with every agent's home set to where the step left the agent.
UnassignedButHome ==
    /\ home' = location'
    /\ UNCHANGED <<num_agents, mode, location_types, leisure_locations, role,
                   work, business, social_need, has_dependents>>

\* What step and the methods it calls assign nowhere.
Unassigned ==
    UNCHANGED <<num_agents, mode, location_types, leisure_locations, role,
                home, work, business, social_need, has_dependents>>

Step ==
    /\ hour < sim_hours
    /\ \E f \in MovePass(num_agents, current_hour, outings_left) :
         /\ outings_left' = outings_left - Outings(f, num_agents, current_hour)
         /\ \E loc \in {[a \in Agents |-> f[a + 1]]} :
              \E contacts \in {RecordContacts(loc, ClearContacts)} :
                /\ location' = loc
                /\ today_contacts' = contacts
                /\ \E exposed \in Transmissions(loc) :
                     \E tr \in {Transmit(exposed)} :
                       \E st \in {UpdatePass(0,
                                      [health_state |-> tr.health_state,
                                       days_in_state |-> tr.days_in_state,
                                       stress |-> stress],
                                      contacts)} :
                         /\ health_state' = st.health_state
                         /\ days_in_state' = st.days_in_state
                         /\ stress' = st.stress
                         /\ \E F \in Flips(st) :
                              compliant' = [a \in Agents |->
                                               IF a \in F THEN FALSE
                                               ELSE compliant[a]]
                         /\ model_vars' = Append(model_vars,
                               Snapshot([health_state |-> tr.health_state,
                                         days_in_state |-> tr.days_in_state,
                                         stress |-> stress], st))
                         /\ exposed_at' = [a \in Agents |->
                               IF a \in exposed THEN hour ELSE exposed_at[a]]
                         /\ infectious_at' = [a \in Agents |->
                               IF st.health_state[a] = "I" /\ tr.health_state[a] # "I"
                               THEN hour ELSE infectious_at[a]]
                         /\ recovered_at' = [a \in Agents |->
                               IF st.health_state[a] = "R" /\ tr.health_state[a] # "R"
                               THEN hour ELSE recovered_at[a]]
    /\ cleared_at' = IF current_hour = 0 THEN cleared_at \cup {hour}
                     ELSE cleared_at
    /\ current_hour' = AdvanceHour(current_hour)
    /\ hour' = hour + 1
    /\ Unassigned
    /\ UNCHANGED <<sim_hours, escape_until>>

Next == Step

(***************************************************************************)
(* TownModel.__init__                                                      *)
(***************************************************************************)
n_students(N) == (3 * N) \div 10      \* int(0.3 * N)
n_office(N) == (4 * N) \div 10        \* int(0.4 * N)
n_service(N) == (2 * N) \div 10       \* int(0.2 * N)

RoleOf(i, N) ==
    IF i < n_students(N) THEN "student"
    ELSE IF i < n_students(N) + n_office(N) THEN "office"
    ELSE IF i < n_students(N) + n_office(N) + n_service(N) THEN "service"
    ELSE "owner"

Offices(N) == Named("office", Max(1, N \div 10))
ServiceSites(N) == Named("service", Max(1, N \div 20))
Schools(N) == Named("school", Max(1, N \div 30))
Cafes(N) == Named("cafe", Max(1, N \div 25))
Parks(N) == Named("park", Max(1, N \div 25))

Workplaces(r, N) ==
    IF r = "student" THEN Schools(N)
    ELSE IF r = "office" THEN Offices(N)
    ELSE IF r = "service" THEN ServiceSites(N)
    ELSE Cafes(N)

\* random.uniform(lo, hi) per role, on the grid
NeedLow(r) ==
    IF r = "student" THEN 400
    ELSE IF r = "office" THEN 300
    ELSE IF r = "service" THEN 200
    ELSE 400

\* The home list index of position p of agent_homes when the successive
\* randint(1, 4) draws are draws[k], draws[k+1], ... (taken cyclically); the
\* last home takes what is left.
RECURSIVE HomeAtOneMore(_, _, _)
\* HomeAt with every home taking one entry more than its size.
HomeAtOneMore(p, draws, k) ==
    LET size == draws[((k - 1) % Len(draws)) + 1]
    IN  IF p <= size THEN k - 1 ELSE HomeAtOneMore(p - size - 1, draws, k + 1)

RECURSIVE HomeAt(_, _, _)
HomeAt(p, draws, k) ==
    LET size == draws[((k - 1) % Len(draws)) + 1]
    IN  IF p < size THEN k - 1 ELSE HomeAt(p - size, draws, k + 1)

\* The household loop: the sizes of the homes it creates while agents_left
\* agents are without a home, the randint(1, 4) draws being draws[k],
\* draws[k+1], ... (taken cyclically).
RECURSIVE household_sizes(_, _, _)
household_sizes(agents_left, draws, k) ==
    IF agents_left > 0
    THEN LET drawn == draws[((k - 1) % Len(draws)) + 1]
             size == IF drawn > agents_left THEN agents_left ELSE drawn
         IN  <<size>> \o household_sizes(agents_left - size, draws, k + 1)
    ELSE <<>>

\* self.home_locations: f"home_{home_count}" for every pass of the loop
home_locations(N, draws) == Named("home", Len(household_sizes(N, draws, 1)))

\* agent_homes after random.shuffle, the shuffle rotating the list by r
HomeDraw(N, draws, r) ==
    [a \in 0 .. (N - 1) |-> Name("home", HomeAt((a + r) % N, draws, 1))]

Construct(N, m, created, homes, works, needs, deps, infected) ==
    /\ Cardinality(infected) = Min(InitialInfections, N)
    /\ num_agents = N
    /\ mode = m
    /\ location_types =
          [l \in created \cup Offices(N)
                 \cup ServiceSites(N) \cup Schools(N) \cup Cafes(N) \cup Parks(N)
             |-> l[1]]
    /\ leisure_locations = Cafes(N) \cup Parks(N)
    /\ role = [a \in 0 .. (N - 1) |-> RoleOf(a, N)]
    /\ home = homes
    /\ work = works
    /\ business = [a \in 0 .. (N - 1) |->
                      IF RoleOf(a, N) = "owner" THEN works[a] ELSE NoLocation]
    /\ social_need = needs
    /\ has_dependents = deps
    /\ location = homes
    /\ health_state = [a \in 0 .. (N - 1) |-> IF a \in infected THEN "I" ELSE "S"]
    /\ days_in_state = [a \in 0 .. (N - 1) |-> 0]
    /\ stress = [a \in 0 .. (N - 1) |-> InitialStress]
    /\ compliant = [a \in 0 .. (N - 1) |-> TRUE]
    /\ today_contacts = [a \in 0 .. (N - 1) |-> {}]
    /\ current_hour = 0
    /\ model_vars = <<>>
    /\ hour = 0
    /\ exposed_at = [a \in 0 .. (N - 1) |-> -1]
    /\ infectious_at = [a \in 0 .. (N - 1) |-> -1]
    /\ recovered_at = [a \in 0 .. (N - 1) |-> -1]
    /\ cleared_at = {}

WorkDraws(N) ==
    {w \in [0 .. (N - 1) -> Offices(N) \cup ServiceSites(N) \cup Schools(N) \cup Cafes(N)] :
        \A a \in 0 .. (N - 1) : w[a] \in Workplaces(RoleOf(a, N), N)}

\* The draws of the explored runs: every random.uniform comes out at the low
\* end of its role's range, and random() < p is true for owners only.
NeedDraw(N) == [a \in 0 .. (N - 1) |-> NeedLow(RoleOf(a, N))]
DepDraw(N) == [a \in 0 .. (N - 1) |-> RoleOf(a, N) = "owner"]

\* Day-long runs of the population of PopSize agents under each policy mode,
\* everybody living alone or agents 0 and 1 sharing a home; the sample of
\* initial infections is {0, 1, 3}.
Init ==
    \E m \in PolicyModes, draws \in {<<1>>, <<2, 1, 1, 1>>} :
      \E works \in WorkDraws(PopSize) :
        /\ Construct(PopSize, m, home_locations(PopSize, draws),
                     HomeDraw(PopSize, draws, 0), works,
                     NeedDraw(PopSize), DepDraw(PopSize), {0, 1, 3})
        /\ sim_hours = DayRun
        /\ outings_left = MaxOutings
        /\ escape_until = 0

\* The last agent that has a colleague of its own role before it.
LastColleague(N) ==
    LET C == {a \in 0 .. (N - 1) : \E b \in 0 .. (a - 1) : RoleOf(b, N) = RoleOf(a, N)}
    IN  CHOOSE a \in C : \A b \in C : b <= a

\* The sample of the long runs: the colleague before LastColleague(N) and
\* the lowest-numbered other agents.
OutbreakSample(N) ==
    LET c == LastColleague(N) - 1
        rest == (0 .. (N - 1)) \ {c, c + 1}
    IN  {c} \cup {a \in rest :
                    Cardinality({b \in rest : b < a}) < InitialInfections - 1}

\* Long runs in which every leisure draw comes out "stay home" and every
\* agent lives alone: two colleagues meet at their workplace in work hours,
\* one of them Infectious and the other Susceptible.
InitOutbreak ==
    \E works \in WorkDraws(OutbreakPop) :
        /\ Construct(OutbreakPop, "targeted", home_locations(OutbreakPop, <<1>>),
                     HomeDraw(OutbreakPop, <<1>>, 0), works,
                     NeedDraw(OutbreakPop), DepDraw(OutbreakPop),
                     OutbreakSample(OutbreakPop))
        /\ sim_hours = OutbreakRun
        /\ outings_left = 0
        /\ escape_until = 0

\* The long runs of InitOutbreak under each of the three policy modes.
InitCompliance ==
    \E m \in PolicyModes, works \in WorkDraws(OutbreakPop) :
        /\ Construct(OutbreakPop, m, home_locations(OutbreakPop, <<1>>),
                     HomeDraw(OutbreakPop, <<1>>, 0), works,
                     NeedDraw(OutbreakPop), DepDraw(OutbreakPop),
                     OutbreakSample(OutbreakPop))
        /\ sim_hours = OutbreakRun
        /\ outings_left = 0
        /\ escape_until = 0

\* The sample of the household runs: agent 0 and the agents after the
\* household of the first three.
HouseholdSample(N) ==
    {0} \cup {a \in 3 .. (N - 1) : a < 3 + InitialInfections - 1}

\* Long runs under "full" in which agents 0, 1 and 2 share a home and the
\* others live alone, agent 0 is Infectious and 1 and 2 are Susceptible;
\* every leisure draw comes out "stay home" and the infection draws escape
\* until the last hours of the infectious period of agent 0.
InitHousehold ==
    \E works \in WorkDraws(HouseholdPop) :
        /\ Construct(HouseholdPop, "full",
                     home_locations(HouseholdPop, <<3, 1, 1, 1>>),
                     HomeDraw(HouseholdPop, <<3, 1, 1, 1>>, 0), works,
                     NeedDraw(HouseholdPop), DepDraw(HouseholdPop),
                     HouseholdSample(HouseholdPop))
        /\ sim_hours = OutbreakRun
        /\ outings_left = 0
        /\ escape_until = infectious_hours - 2

\* A policy_mode argument that is none of the three modes.
UnknownMode == "partial"

\* random.shuffle: the orders the list can come out in
Orders(N) ==
    {p \in [0 .. (N - 1) -> 0 .. (N - 1)] :
        \A a, b \in 0 .. (N - 1) : p[a] = p[b] => a = b}

\* The household sizes the loop can produce for N agents.
HouseholdDraws(N) == {household_sizes(N, d, 1) : d \in [1 .. N -> 1 .. 4]}

\* agent_homes after random.shuffle, agent a getting the entry p[a]
Shuffle(N, draws, p) ==
    [a \in 0 .. (N - 1) |-> Name("home", HomeAt(p[a], draws, 1))]

\* A sample of min(3, N) agents: the first ones.
FirstSample(N) == {a \in 0 .. (N - 1) : a < InitialInfections}

\* Short runs of TownModel(N, policy_mode) for arguments the constructor
\* takes, N from 0 to ConfigPop and policy_mode "full" or another string,
\* with every outcome of the household draws and of the shuffle; every
\* leisure draw comes out "stay home".
InitConfig ==
    \E N \in 0 .. ConfigPop, m \in {"full", UnknownMode} :
      \E p \in Orders(N), draws \in HouseholdDraws(N), works \in WorkDraws(N) :
        /\ Construct(N, m, home_locations(N, draws), Shuffle(N, draws, p), works,
                     NeedDraw(N), DepDraw(N), FirstSample(N))
        /\ sim_hours = ConfigRun
        /\ outings_left = 0
        /\ escape_until = 0

Spec == Init /\ [][Next]_vars
SpecConfig == InitConfig /\ [][Next]_vars
SpecHousehold == InitHousehold /\ [][Next]_vars
SpecCompliance == InitCompliance /\ [][Next]_vars
SpecOutbreak == InitOutbreak /\ [][Next]_vars

(***************************************************************************)
(* Properties                                                              *)
(***************************************************************************)
\* The hour-of-day of the step that produced the current state.
LastHour == (current_hour + HoursPerDay - 1) % HoursPerDay

\* C1: every agent's stress is in [0,1] in every reachable state, and so is
\* the AvgStress of every collected row.
C1_StressInUnitInterval ==
    /\ \A a \in Agents : 0 <= stress[a] /\ stress[a] <= Unit
    /\ \A i \in 1 .. Len(model_vars) :
          0 <= model_vars[i].AvgStress /\ model_vars[i].AvgStress <= Unit

\* An agent with contacts (so the blend ran) has stress 1.0 after two
\* contacts of the same hour were at 1.0 too.
C1_Witness ==
    \E a \in Agents : /\ today_contacts[a] # {}
                      /\ stress[a] = Unit
                      /\ \A b \in today_contacts[a] : stress[b] = Unit

\* C2: health_state is always one of S, E, I, R and a step changes it only by
\* S->E, E->I or I->R, one transition at most.
C2_HealthMonotone ==
    /\ [](\A a \in Agents : health_state[a] \in HealthStates)
    /\ [][\A a \in Agents :
            \/ health_state'[a] = health_state[a]
            \/ <<health_state[a], health_state'[a]>> \in
                  {<<"S", "E">>, <<"E", "I">>, <<"I", "R">>}]_vars

\* A Recovered agent shares the day's contacts with an Infectious one after
\* having gone through E, I and R itself or not.
C2_Witness ==
    \E a, b \in Agents : /\ health_state[a] = "R"
                         /\ health_state[b] = "I"
                         /\ location[a] = location[b]
                         /\ exposed_at[b] >= 0

\* C3: under "full" no student is at a school-category location and no owner
\* is at its business location.
C3_FullContainment ==
    mode = "full" =>
        \A a \in Agents :
            /\ role[a] = "student" => LocType(location[a]) # "school"
            /\ role[a] = "owner" => location[a] # business[a]

\* Under "full", the step of hour 9 (school and work block) has run with a
\* student and an owner in the population.
C3_Witness ==
    /\ mode = "full" /\ hour > 0 /\ LastHour = 9
    /\ \E a, b \in Agents : role[a] = "student" /\ role[b] = "owner"

\* C4: after a step whose hour-of-day is in [9,17), every service agent is at
\* its work location, whatever the mode.
C4_EssentialAtWork ==
    (hour > 0 /\ 9 <= LastHour /\ LastHour < 17) =>
        \A a \in Agents : role[a] = "service" => location[a] = work[a]

\* Under "full", a work-hour step has placed a service agent at work.
C4_Witness ==
    /\ mode = "full" /\ hour > 0 /\ LastHour = 12
    /\ \E a \in Agents : role[a] = "service" /\ location[a] = work[a]
                          /\ location[a] # home[a]

\* C5: the contact relation is symmetric in every reachable state.
C5_ContactSymmetry ==
    \A a, b \in Agents : (a \in today_contacts[b]) <=> (b \in today_contacts[a])

\* On the second day, after the hour-0 reset, contacts have been recorded.
C5_Witness ==
    /\ hour > HoursPerDay
    /\ \E a, b \in Agents : a \in today_contacts[b] /\ a # b
\* C7: an agent that turned Exposed in step t is Exposed at the end of steps
\* t .. t+incubation_hours-1 and turns Infectious, counter 0, in step
\* t+incubation_hours (the counter must exceed the threshold, not equal it).
C7_IncubationBoundary ==
    \A a \in Agents :
        exposed_at[a] >= 0 =>
            /\ hour <= exposed_at[a] + incubation_hours =>
                  /\ health_state[a] = "E"
                  /\ days_in_state[a] = hour - exposed_at[a]
            /\ hour > exposed_at[a] + incubation_hours =>
                  /\ health_state[a] \in {"I", "R"}
                  /\ infectious_at[a] = exposed_at[a] + incubation_hours
            /\ hour = exposed_at[a] + incubation_hours + 1 =>
                  /\ health_state[a] = "I"
                  /\ days_in_state[a] = 0

\* An agent exposed during the run has just turned Infectious.
C7_Witness ==
    \E a \in Agents : /\ exposed_at[a] >= 0
                      /\ hour = exposed_at[a] + incubation_hours + 1
                      /\ health_state[a] = "I"

\* The number of step calls made when agent a was Infectious with counter 0:
\* 0 for an agent seeded at construction, or -1 if it never was.
InfectiousSince(a) ==
    IF infectious_at[a] >= 0 THEN infectious_at[a] + 1
    ELSE IF exposed_at[a] < 0 /\ health_state[a] \in {"I", "R"} THEN 0
    ELSE -1

\* C8: an agent Infectious with counter 0 is Infectious at the end of each of
\* the next infectious_hours steps and turns Recovered, counter 0, in the step
\* after; an agent seeded at construction is Infectious after 24 steps.
C8_InfectiousPeriod ==
    \A a \in Agents :
        InfectiousSince(a) >= 0 =>
            /\ hour <= InfectiousSince(a) + infectious_hours =>
                  /\ health_state[a] = "I"
                  /\ days_in_state[a] = hour - InfectiousSince(a)
            /\ hour > InfectiousSince(a) + infectious_hours =>
                  /\ health_state[a] = "R"
                  /\ recovered_at[a] = InfectiousSince(a) + infectious_hours
            /\ hour = InfectiousSince(a) + infectious_hours + 1 =>
                  days_in_state[a] = 0

\* A seeded agent and an agent that came from Exposed have both recovered.
C8_Witness ==
    \E a, b \in Agents : /\ exposed_at[a] < 0 /\ health_state[a] = "R"
                         /\ exposed_at[b] >= 0 /\ health_state[b] = "R"

\* C9: current_hour is in 0..23, equals the number of step calls mod 24, and
\* the hour-0 reset has run exactly in the steps 0, 24, 48, ...
C9_Clock ==
    /\ current_hour \in 0 .. 23
    /\ current_hour = hour % 24
    /\ cleared_at = {k \in 0 .. (hour - 1) : k % 24 = 0}

\* The clock has wrapped and the second reset has run.
C9_Witness == hour > HoursPerDay /\ current_hour = 1 /\ 24 \in cleared_at

\* C10: after k steps there are k rows, rows are only appended, and the
\* Infected value of the last row is the number of agents Infectious now.
C10_OneRowPerStep ==
    /\ [](/\ Len(model_vars) = hour
          /\ hour > 0 =>
                model_vars[hour].Infected =
                    Cardinality({a \in Agents : health_state[a] = "I"}))
    /\ [][/\ Len(model_vars') = Len(model_vars) + 1
          /\ SubSeq(model_vars', 1, Len(model_vars)) = model_vars]_vars

\* The Infectious count of the last row differs from that of the row before.
C10_Witness ==
    /\ hour > 1
    /\ model_vars[hour].Infected # model_vars[hour - 1].Infected

\* C11: a model built from a population size below 1 or from a policy_mode
\* other than "none", "targeted" and "full" is never stepped: construction
\* yields an error, not a model.
C11_InvalidConfigurationRejected ==
    hour > 0 => (num_agents >= 1 /\ mode \in PolicyModes)

\* The value of a row in the column of role r.
RoleColumn(row, r) ==
    IF r = "student" THEN row.AvgStress_Student
    ELSE IF r = "office" THEN row.AvgStress_Office
    ELSE IF r = "service" THEN row.AvgStress_Service
    ELSE row.AvgStress_Owner

RoleAgents(r) == {a \in Agents : role[a] = r}

\* C12: for a role no agent has, the role's column is 0.0 in every row; for
\* a role some agent has, the column of the last row is the mean (rounded
\* down to the grid) of the stress of exactly the agents of that role.
C12_RoleReporters ==
    \A r \in Roles :
        /\ RoleAgents(r) = {} =>
              \A i \in 1 .. Len(model_vars) : RoleColumn(model_vars[i], r) = 0
        /\ (RoleAgents(r) # {} /\ hour > 0) =>
              LET v == RoleColumn(model_vars[hour], r)
                  n == Cardinality(RoleAgents(r))
                  total == SumOver(RoleAgents(r), stress)
              IN  v * n <= total /\ total < (v + 1) * n

\* Two rows have been collected for a population that has no student and
\* whose owners' mean stress differs from the mean of the population.
C12_Witness ==
    /\ hour > 1
    /\ RoleAgents("student") = {}
    /\ RoleColumn(model_vars[hour], "student") = 0
    /\ RoleAgents("owner") # {}
    /\ RoleColumn(model_vars[hour], "owner") # model_vars[hour].AvgStress

\* C13: under each of the three modes, allows_work is true exactly for the
\* agents whose role is service or when the mode is none or targeted.
C13_AllowsWork ==
    mode \in PolicyModes =>
        \A a \in Agents :
            allows_work(a) <=> (role[a] = "service" \/ mode \in {"none", "targeted"})

\* Under "full" a work-hour step has run with a service agent allowed to
\* work and at work, and an office agent refused and at home.
C13_Witness ==
    /\ mode = "full" /\ hour > 0 /\ LastHour = 10
    /\ \E a, b \in Agents : /\ role[a] = "service" /\ allows_work(a)
                            /\ location[a] = work[a]
                            /\ role[b] = "office" /\ ~allows_work(b)
                            /\ location[b] = home[b]

\* C14: under each of the three modes, allows_school is true exactly for
\* the students when the mode is none or targeted.
C14_AllowsSchool ==
    mode \in PolicyModes =>
        \A a \in Agents :
            allows_school(a) <=> (role[a] = "student" /\ mode \in {"none", "targeted"})

\* Under "targeted" the step of hour 8 has run: a student is allowed and at
\* school, while the other agents are refused.
C14_Witness ==
    /\ mode = "targeted" /\ hour > 0 /\ LastHour = 8
    /\ \E a, b \in Agents : /\ role[a] = "student" /\ allows_school(a)
                            /\ location[a] = work[a]
                            /\ role[b] # "student" /\ ~allows_school(b)

\* A name that location_types does not record.
UnrecordedName == Name("plaza", 0)

\* C15: allows_leisure_location is true for every location under none,
\* false for every location under full, and under targeted false exactly
\* for the locations recorded with category cafe (true for parks, for the
\* other categories and for a name with no recorded category).
C15_AllowsLeisureLocation ==
    \A l \in DOMAIN location_types \cup {UnrecordedName} :
        /\ mode = "none" => allows_leisure_location(l)
        /\ mode = "full" => ~allows_leisure_location(l)
        /\ mode = "targeted" =>
              (allows_leisure_location(l) <=>
                  ~(l \in DOMAIN location_types /\ location_types[l] = "cafe"))

\* Under "targeted" a leisure draw has come out "go out" and the agent is
\* at a park, the cafe being refused.
C15_Witness ==
    /\ mode = "targeted" /\ hour > 0
    /\ \E a \in Agents : /\ location_types[location[a]] = "park"
                         /\ allows_leisure_location(location[a])
    /\ \E l \in leisure_locations : ~allows_leisure_location(l)

\* C16: allows_business_open is true for an agent that is no owner or has no
\* business; for an owner with a business it is true under none, false
\* under full, and under targeted false exactly when the business is
\* recorded with category cafe.
C16_AllowsBusinessOpen ==
    mode \in PolicyModes =>
        \A a \in Agents :
            IF role[a] # "owner" \/ business[a] = NoLocation
            THEN allows_business_open(a)
            ELSE /\ mode = "none" => allows_business_open(a)
                 /\ mode = "full" => ~allows_business_open(a)
                 /\ mode = "targeted" =>
                       (allows_business_open(a) <=>
                           ~(business[a] \in DOMAIN location_types
                             /\ location_types[business[a]] = "cafe"))

\* Under "targeted" an owner's cafe is closed, the owner has taken the
\* economic stress of a step, and an agent without a business is allowed.
C16_Witness ==
    /\ mode = "targeted" /\ hour > 0
    /\ \E a, b \in Agents : /\ role[a] = "owner" /\ business[a] # NoLocation
                            /\ ~allows_business_open(a)
                            /\ stress[a] > stress[b]
                            /\ role[b] = "office" /\ business[b] = NoLocation
                            /\ allows_business_open(b)

\* The home locations the constructor created.
CreatedHomes == {l \in DOMAIN location_types : location_types[l] = "home"}
Household(h) == {a \in Agents : home[a] = h}

\* C17: in a model of N >= 1 agents every agent's home is one of the created
\* home locations, and every created home location is the home of at least
\* 1 and at most 4 agents, whatever the household draws and the shuffle.
C17_Households ==
    num_agents >= 1 =>
        /\ \A a \in Agents : home[a] \in CreatedHomes
        /\ \A h \in CreatedHomes :
              /\ Cardinality(Household(h)) >= 1
              /\ Cardinality(Household(h)) <= 4

\* A draw of 4 was followed by a draw cut down to the one agent left, and
\* the shuffle gave the lowest-numbered agent the last home.
C17_Witness ==
    /\ hour = 0
    /\ \E h1, h2 \in CreatedHomes : /\ Cardinality(Household(h1)) = 4
                                    /\ Household(h2) = {0}
                                    /\ h2[2] > h1[2]

\* C18: after a step of hour-of-day h, an office, service or owner agent
\* with h in [9,17), and a student with h in [8,15), is at its work location
\* if allows_work (resp. allows_school) is true and it has one, and at home
\* otherwise; any other agent is at home or at a cafe or park for which
\* allows_leisure_location is true.
C18_Placement ==
    hour > 0 =>
        \A a \in Agents :
            IF role[a] \in {"office", "service", "owner"} /\ 9 <= LastHour /\ LastHour < 17
            THEN location[a] = IF allows_work(a) /\ work[a] # NoLocation
                               THEN work[a] ELSE home[a]
            ELSE IF role[a] = "student" /\ 8 <= LastHour /\ LastHour < 15
            THEN location[a] = IF allows_school(a) /\ work[a] # NoLocation
                               THEN work[a] ELSE home[a]
            ELSE \/ location[a] = home[a]
                 \/ /\ location[a] \in leisure_locations
                    /\ location_types[location[a]] \in {"cafe", "park"}
                    /\ allows_leisure_location(location[a])

\* After the step of hour 15 a student, out of school, is at a cafe while an
\* office agent is still at work.
C18_Witness ==
    /\ hour > 0 /\ LastHour = 15
    /\ \E a, b \in Agents : /\ role[a] = "student"
                            /\ location_types[location[a]] = "cafe"
                            /\ role[b] = "office" /\ location[b] = work[b]
                            /\ location[b] # home[b]

\* C19: a step turns a Susceptible agent into nothing but Exposed, and only
\* if an agent that was Infectious when the step began (so neither Exposed
\* nor turning Infectious in this step) is at the same location after the
\* movement phase; otherwise the agent is still Susceptible after the step.
C19_ExposureNeedsInfectious ==
    [][\A a \in Agents :
          health_state[a] = "S" =>
              \/ health_state'[a] = "S"
              \/ /\ health_state'[a] = "E"
                 /\ \E b \in Agents \ {a} : /\ location'[b] = location'[a]
                                            /\ health_state[b] = "I"]_vars

\* An agent exposed by a housemate has turned Infectious in the last step,
\* at a location it shares with an agent that is still Susceptible and
\* with nobody who was Infectious before that step; another Susceptible
\* agent is alone at its location.
C19_Witness ==
    \E a, b, s \in Agents :
        /\ health_state[s] = "S"
        /\ \A c \in Agents \ {s} : location[c] # location[s]
        /\ exposed_at[a] >= 0
        /\ infectious_at[a] = hour - 1
        /\ location[b] = location[a]
        /\ health_state[b] = "S"
        /\ \A c \in Agents :
              (location[c] = location[a] /\ health_state[c] = "I") =>
                  infectious_at[c] = hour - 1

\* C20: no agent is its own contact, and a step leaves in today_contacts of
\* agent A exactly the agents other than A at A's location after the
\* movement phase, added to what the set held before, or to nothing if the
\* step began at hour 0.  The set is hence the agents that shared A's
\* location in a step since, and including, the last one begun at hour 0.
C20_TodayContacts ==
    /\ [](\A a \in Agents : a \notin today_contacts[a])
    /\ [][\A a \in Agents :
            today_contacts'[a] =
                (IF current_hour = 0 THEN {} ELSE today_contacts[a])
                \cup {b \in Agents \ {a} : location'[b] = location'[a]}]_vars

\* On the second day an agent has a housemate as contact again, and not the
\* colleague it was at work with on the first day.
C20_Witness ==
    /\ hour > HoursPerDay
    /\ mode = "none"
    /\ \E a, b, c \in Agents : /\ a # b /\ home[b] = home[a]
                               /\ b \in today_contacts[a]
                               /\ a # c /\ work[c] = work[a]
                               /\ c \notin today_contacts[a]

\* C21: every agent is compliant at construction; a step never turns a
\* non-compliant agent compliant, and turns a compliant agent non-compliant
\* only if the stress its update_stress of that step ended with is strictly
\* above 0.8.
C21_ComplianceOneWay ==
    /\ [](hour = 0 => \A a \in Agents : compliant[a])
    /\ [][\A a \in Agents :
            /\ compliant'[a] => compliant[a]
            /\ (compliant[a] /\ ~compliant'[a]) => stress'[a] > HighStress]_vars

\* One agent has stopped complying while another, whose stress is above 0.8
\* too, still complies.
C21_Witness ==
    \E a, b \in Agents : /\ ~compliant[a]
                         /\ compliant[b] /\ stress[b] > HighStress

\* C22: under "none", a step in which an agent that is no owner ends the
\* contact phase with no contact of the day takes its stress to
\* max(0, stress - decay), plus the isolation increment capped at 1.0 when
\* 0 < social_need * target_contacts, and nothing else; the stress is
\* never below 0.
C22_IsolatedStress ==
    /\ [](\A a \in Agents : stress[a] >= 0)
    /\ [][\A a \in Agents :
            (mode = "none" /\ role[a] # "owner" /\ today_contacts'[a] = {}) =>
                stress'[a] =
                    LET decayed == IF stress[a] - stress_decay > 0
                                   THEN stress[a] - stress_decay ELSE 0
                    IN  IF 0 < social_need[a] * target_contacts
                        THEN (IF decayed + isolation_stress < Unit
                              THEN decayed + isolation_stress ELSE Unit)
                        ELSE decayed]_vars

\* Under "none" a service agent has had no contact for twenty hours of the
\* day, with Infectious agents in the town, and its stress is the initial
\* one plus twenty times the isolation increment less the decay.
C22_Witness ==
    /\ mode = "none" /\ hour = 20
    /\ \E a, b \in Agents :
          /\ role[a] = "service" /\ today_contacts[a] = {}
          /\ stress[a] = InitialStress + 20 * (isolation_stress - stress_decay)
          /\ health_state[b] = "I" /\ today_contacts[b] # {}

\* What move reads of agent a besides its home.
SameButHome(a, b) ==
    /\ role[a] = role[b]
    /\ work[a] = work[b]
    /\ social_need[a] = social_need[b]
    /\ stress[a] = stress[b]

\* One hour of each kind move tells apart: before both blocks, in the school
\* block only, in both, in the work block only, after both.
MoveHours == {0, 8, 9, 15, 17}

\* C23: the compliant flag has no effect on movement, under every mode.
\* Two agents that differ in nothing but the flag and the home have the
\* same chance to go out and, at every hour, the same places to be left at,
\* each with its own home; and a step that leaves an agent's stress
\* unchanged leaves its places unchanged, whatever it does to the flag.
C23_ComplianceIgnoredByMove ==
    /\ [](\A a, b \in Agents :
            (a < b /\ SameButHome(a, b)) =>
                /\ GoOutChance(a) = GoOutChance(b)
                /\ \A h \in MoveHours :
                      /\ move(a, h) \ {home[a]} = move(b, h) \ {home[b]}
                      /\ home[a] \in move(a, h) <=> home[b] \in move(b, h))
    /\ [][\A a \in Agents :
            stress'[a] = stress[a] =>
                \A h \in MoveHours : move(a, h)' = move(a, h)]_vars

\* Under "targeted" two owners of the same cafe have the same stress, and
\* one of them has stopped complying while the other has not.
C23_Witness ==
    /\ mode = "targeted"
    /\ \E a, b \in Agents : /\ a < b /\ SameButHome(a, b)
                            /\ compliant[a] # compliant[b]

\* C24: a step changes neither the set of agents, the locations and their
\* categories, the policy mode, nor any agent's role, home, work, business,
\* social_need and has_dependents (an agent's unique_id is its index here).
C24_Frame ==
    [][UNCHANGED <<num_agents, mode, location_types, leisure_locations,
                   role, home, work, business, social_need, has_dependents>>]_vars

\* After a week of steps every field a step may assign has changed for some
\* agent, and the roles and homes are those of construction.
C24_Witness ==
    /\ hour > infectious_hours
    /\ Len(model_vars) = hour
    /\ role = [a \in Agents |-> RoleOf(a, num_agents)]
    /\ home = HomeDraw(num_agents, <<3, 1, 1, 1>>, 0)
    /\ \E a \in Agents : location[a] # home[a]
    /\ \E a \in Agents : health_state[a] = "R"
    /\ \E a \in Agents : health_state[a] = "E" /\ days_in_state[a] > 0
    /\ \E a \in Agents : stress[a] # InitialStress
    /\ \E a \in Agents : ~compliant[a]
    /\ \E a \in Agents : today_contacts[a] # {}

\* The pass over the agents from agent i down to agent 0.
RECURSIVE DownwardPass(_, _, _)
DownwardPass(i, st, contacts) ==
    IF i < 0 THEN st
    ELSE LET hd == update_health(st.health_state[i], st.days_in_state[i])
             st1 == [st EXCEPT !.health_state[i] = hd.health_state,
                               !.days_in_state[i] = hd.days_in_state]
             st2 == [st1 EXCEPT !.stress[i] = update_stress(i, st1, contacts)]
         IN  DownwardPass(i - 1, st2, contacts)

\* C25: the stress a step leaves an agent with contacts is the blend of its
\* own stress, after the decay and the increments, with the mean over its
\* contacts of the stress the contact has when the agent is visited: the
\* stress after this step for a contact visited before the agent, the
\* stress before this step for a contact visited after it (and likewise
\* for the contact being Infectious).
C25_ReadsDuringPass ==
    [][\A a \in Agents :
          today_contacts'[a] # {} =>
              LET met == today_contacts'[a]
                  seen == [b \in Agents |-> IF b < a THEN stress'[b] ELSE stress[b]]
                  infected == \E b \in met :
                                 IF b < a THEN health_state'[b] = "I"
                                 ELSE health_state[b] = "I"
                  s1 == Decay(stress[a])
                  s2 == IF Cardinality(met) * Unit < social_need[a] * target_contacts
                        THEN AddStress(s1, isolation_stress) ELSE s1
                  s3 == IF infected THEN AddStress(s2, fear_stress) ELSE s2
                  s4 == IF role[a] = "owner" /\ ~allows_business_open(a)
                        THEN AddStress(s3, economic_stress) ELSE s3
                  s5 == IF has_dependents[a] /\ infected
                        THEN AddStress(s4, dependent_stress) ELSE s4
              IN  stress'[a] = Blend(s5, Mean(met, seen))]_vars

\* A state from which the pass gives some agent one stress when it visits
\* the agents in the order of the schedule and another when it visits them
\* in the opposite order.
C25_Witness ==
    /\ hour > 0
    /\ \E a \in Agents :
          /\ today_contacts[a] # {}
          /\ LET st == [health_state |-> health_state,
                        days_in_state |-> days_in_state, stress |-> stress]
             IN  UpdatePass(0, st, today_contacts).stress[a]
                    # DownwardPass(num_agents - 1, st, today_contacts).stress[a]

\* C26: under "full" every agent is at home after every step, except the
\* service agents after a step of an hour in [9,17), who are at work; no
\* agent is at a cafe, a park, an office or a school.
C26_FullLockdown ==
    mode = "full" =>
        \A a \in Agents :
            /\ location[a] =
                  IF hour > 0 /\ role[a] = "service" /\ 9 <= LastHour /\ LastHour < 17
                  THEN work[a] ELSE home[a]
            /\ location_types[location[a]] \notin {"cafe", "park", "office", "school"}

\* Under "full" the step of hour 20 has run: every agent could have drawn
\* "go out", no outing of the run has been used and everybody is at home.
C26_Witness ==
    /\ mode = "full" /\ hour = 21
    /\ outings_left = MaxOutings
    /\ \A a \in Agents : GoOutChance(a) > 0 /\ location[a] = home[a]
    /\ AllowedLeisure = {}

\* C27: under "targeted" an agent is at a cafe only if it is an owner, the
\* cafe is its work location and the step that placed it ran at an hour in
\* [9,17); after such a step every owner is at its cafe although
\* allows_business_open is false for it.
C27_TargetedCafes ==
    mode = "targeted" =>
        /\ \A a \in Agents :
              location_types[location[a]] = "cafe" =>
                  /\ role[a] = "owner" /\ work[a] = location[a]
                  /\ hour > 0 /\ 9 <= LastHour /\ LastHour < 17
        /\ (hour > 0 /\ 9 <= LastHour /\ LastHour < 17) =>
              \A a \in Agents :
                  role[a] = "owner" =>
                      /\ location[a] = work[a]
                      /\ location_types[work[a]] = "cafe"
                      /\ ~allows_business_open(a)

\* Under "targeted" an agent has been out for leisure, at a park, and later
\* an owner is at its closed cafe in work hours.
C27_Witness ==
    /\ mode = "targeted" /\ hour > 0 /\ LastHour = 10
    /\ outings_left < MaxOutings
    /\ \E a \in Agents : /\ role[a] = "owner"
                         /\ location_types[location[a]] = "cafe"
                         /\ ~allows_business_open(a)

\* C28: at the end of a step the counter of an Exposed agent is at most
\* incubation_hours and that of an Infectious agent at most
\* infectious_hours; an agent is Recovered once incubation_hours +
\* infectious_hours + 2 steps have been made after the step that exposed
\* it, and once infectious_hours + 1 steps have been made since it was
\* Infectious with counter 0.
C28_RecoveryBounds ==
    \A a \in Agents :
        /\ health_state[a] = "E" => days_in_state[a] <= incubation_hours
        /\ health_state[a] = "I" => days_in_state[a] <= infectious_hours
        /\ (/\ exposed_at[a] >= 0
            /\ hour - (exposed_at[a] + 1) >= incubation_hours + infectious_hours + 2)
              => health_state[a] = "R"
        /\ (/\ InfectiousSince(a) >= 0
            /\ hour - InfectiousSince(a) >= infectious_hours + 1)
              => health_state[a] = "R"

\* The run has gone on for incubation_hours + infectious_hours + 2 steps
\* after a step that exposed an agent, and that agent has recovered.
C28_Witness ==
    \E a \in Agents :
        /\ exposed_at[a] >= 0
        /\ hour - (exposed_at[a] + 1) >= incubation_hours + infectious_hours + 2
        /\ health_state[a] = "R"
        /\ recovered_at[a] < hour - 1
====
